---- MODULE Spec2Model ----
(***************************************************************************)
(* A model of the PHP version store (package phpstore): discovery feeding  *)
(* addVersion, the sort that ends loadVersions, and the queries            *)
(* bestVersion / fallbackVersion / IsVersionAvailable.                     *)
(*                                                                         *)
(* Go strings that the code inspects byte by byte (version strings and     *)
(* requested prefixes) are sequences of one-character strings; indexes     *)
(* follow Go (0-based, -1 for "not found") and Slice(s, lo, hi) is s[lo:hi].*)
(* A Go pointer that may be nil is a sequence of length 0 or 1.            *)
(***************************************************************************)
EXTENDS Naturals, Integers, Sequences, FiniteSets, TLC

VARIABLES
    versions,      \* PHPStore.versions    (store.go:39)
    pathVersion,   \* PHPStore.pathVersion (store.go:40), <<>> is nil
    seen,          \* PHPStore.seen        (store.go:41), path -> index
    pc,            \* position of New/loadVersions/discover
    adds,          \* number of addVersion calls made so far
    last,          \* the last addVersion call: its argument and result
    ret,           \* the last query: its arguments and returned values
    pathEnv,       \* the value of $PATH that pathDirectories read
    paths,         \* the directories of $PATH that discover has yet to scan
    cache,         \* the file php_versions.json of configDir, <<>> is no file
    walk,          \* the filepath.Walk that discoverFromDir runs
    environ        \* what the process finds around it: FORCED_PHP_VERSION, the
                   \* working directory, the project files, a php-config

vars == <<versions, pathVersion, seen, pc, adds, last, ret, pathEnv, paths, cache, walk, environ>>

-----------------------------------------------------------------------------
(* Bounds *)

\* addVersion calls in one discovery
MaxAdds == 2

\* length of the vernum= value of a php-config
MaxVernumLen == 6

\* path separators in the pattern handed to discoverFromDir
MaxSeps == 1

-----------------------------------------------------------------------------
(* Strings *)

Digits == <<"0", "1", "2", "3", "4", "5", "6", "7", "8", "9">>

IsDigit(c) == \E i \in 1..10 : Digits[i] = c

DigitVal(c) == (CHOOSE i \in 1..10 : Digits[i] = c) - 1

\* Go s[lo:hi]
Slice(s, lo, hi) == SubSeq(s, lo + 1, hi)

\* strings.IndexByte
IndexByte(s, c) ==
    IF \E i \in 1..Len(s) : s[i] = c
    THEN (CHOOSE i \in 1..Len(s) : s[i] = c /\ \A j \in 1..(i - 1) : s[j] # c) - 1
    ELSE -1

\* strings.LastIndexByte
LastIndexByte(s, c) ==
    IF \E i \in 1..Len(s) : s[i] = c
    THEN (CHOOSE i \in 1..Len(s) : s[i] = c /\ \A j \in (i + 1)..Len(s) : s[j] # c) - 1
    ELSE -1

\* strings.HasPrefix
HasPrefix(s, prefix) ==
    /\ Len(prefix) <= Len(s)
    /\ SubSeq(s, 1, Len(prefix)) = prefix

\* strings.Split(s, ".")
RECURSIVE Split(_)
Split(s) ==
    LET i == IndexByte(s, ".") IN
    IF i = -1 THEN <<s>>
    ELSE <<Slice(s, 0, i)>> \o Split(Slice(s, i + 1, Len(s)))

\* strconv.ParseInt(s, 10, 64) of a string of digits
RECURSIVE Atoi(_)
Atoi(s) ==
    IF s = <<>> THEN 0
    ELSE Atoi(SubSeq(s, 1, Len(s) - 1)) * 10 + DigitVal(s[Len(s)])

\* strconv.FormatInt(n, 10)
RECURSIVE Itoa(_)
Itoa(n) ==
    IF n < 10 THEN <<Digits[n + 1]>>
    ELSE Itoa(n \div 10) \o <<Digits[(n % 10) + 1]>>

RECURSIVE Join(_)
Join(parts) ==
    IF Len(parts) = 0 THEN <<>>
    ELSE IF Len(parts) = 1 THEN parts[1]
    ELSE parts[1] \o <<".">> \o Join(Tail(parts))

-----------------------------------------------------------------------------
(* go-version, for the strings the store hands it: dot-separated runs of   *)
(* digits. A parsed version is its sequence of numeric segments, <<>> is   *)
(* the parse error.                                                        *)

\* version.NewVersion: segments are parsed as integers and padded to three
NewVersion(s) ==
    LET parts == Split(s) IN
    IF \A i \in 1..Len(parts) :
           /\ parts[i] # <<>>
           /\ \A j \in 1..Len(parts[i]) : IsDigit(parts[i][j])
    THEN [i \in 1..(IF Len(parts) < 3 THEN 3 ELSE Len(parts)) |->
              IF i <= Len(parts) THEN Atoi(parts[i]) ELSE 0]
    ELSE <<>>

\* (*version.Version).String: the segments, formatted as integers
String(fv) == Join([i \in 1..Len(fv) |-> Itoa(fv[i])])

\* (*version.Version).LessThan: segment-wise numeric comparison, a missing
\* segment counting as 0
RECURSIVE LessThan(_, _)
LessThan(a, b) ==
    IF a = <<>> /\ b = <<>> THEN FALSE
    ELSE LET x == IF a = <<>> THEN 0 ELSE Head(a)
             y == IF b = <<>> THEN 0 ELSE Head(b)
         IN
         IF x # y THEN x < y
         ELSE LessThan(IF a = <<>> THEN a ELSE Tail(a),
                       IF b = <<>> THEN b ELSE Tail(b))

-----------------------------------------------------------------------------
(* The host: what the probes can find *)

\* the vernum= values of the php-config files on the host (XYYZZ)
Vernums ==
    { <<"7", "0", "4", "3", "3">>,
      <<"8", "0", "1", "0", "2">>,
      <<"8", "0", "1", "1", "4">>,
      <<"8", "1", "0", "0", "3">> }

\* the PHP binaries of the host; the first is a symbolic link to the second,
\* the last does not exist on disk (the paths the unit test makes up).
\* /usr/local/bin/php is one more link to the second, and /bin is a link to
\* the directory /usr/bin.
Paths == {"/usr/bin/php", "/usr/bin/php8.1", "/opt/php/bin/php", "/foo/bin/php"}

\* filepath.EvalSymlinks, its error dropped as addVersion drops it: "" when
\* the path cannot be resolved. A fixed function of the path.
EvalSymlinks(path) ==
    CASE path = "/usr/bin/php"     -> "/usr/bin/php8.1"
      [] path = "/usr/bin/php8.1"  -> "/usr/bin/php8.1"
      [] path = "/opt/php/bin/php" -> "/opt/php/bin/php"
      [] path = "/usr/local/bin/php" -> "/usr/bin/php8.1"
      [] path = "/bin"             -> "/usr/bin"
      [] path \in {"/usr/bin", "/usr/local/bin", "/opt/php/bin", "/foo/bin",
                   "/home/u/.symfony5/bin"} -> path
      [] OTHER                     -> ""

\* what setServer can leave in <<FPMPath, CGIPath>>: the front-ends found
\* beside the binary
Servers == { <<"", "">>, <<"", "php-cgi">>, <<"php-fpm", "php-cgi">> }

\* validateVersion taking one digit for the minor version
validateVersionShortMinor(v) ==
    IF Len(v) # 5 THEN <<>>
    ELSE NewVersion(<<v[1]>> \o <<".">> \o Slice(v, 1, 2) \o <<".">> \o Slice(v, 3, 5))

\* validateVersion: a vernum of five bytes is parsed as X.YY.ZZ
validateVersion(v) ==
    IF Len(v) # 5 THEN <<>>
    ELSE NewVersion(<<v[1]>> \o <<".">> \o Slice(v, 1, 3) \o <<".">> \o Slice(v, 3, 5))

\* discoverPHPViaPHPConfig: the record built for one installation, as a
\* sequence holding the record, or <<>> for nil
discoverPHPViaPHPConfig(vernum, php, fpm, cgi) ==
    LET v == validateVersion(vernum) IN
    IF v = <<>> THEN <<>>
    ELSE << [ Version     |-> String(v),
              FullVersion |-> v,
              PHPPath     |-> php,
              FPMPath     |-> fpm,
              CGIPath     |-> cgi,
              IsSystem    |-> FALSE ] >>

\* every record a probe can yield on the host
Found ==
    { r[1] : r \in { discoverPHPViaPHPConfig(n, p, s[1], s[2]) :
                        n \in Vernums, p \in Paths, s \in Servers } \ {<<>>} }

\* the directories the probes of this model look into
Dirs == {"/usr", "/usr/local", "/usr/bin", "/usr/local/bin", "/opt/php/bin", "/foo/bin"}

\* findFromDir(dir, nil, why) for every directory: the records
\* discoverPHP(dir, "php") can build for the installation under dir, "bin"
\* dropped from its end. PHPPath is <dir>/bin/php when php-config is read and
\* the resolved binary when php is run; the version and the front-ends are
\* what the host has there.
FoundIn ==
    [ dir \in Dirs |->
        LET php == CASE dir \in {"/usr", "/usr/bin"}             -> "/usr/bin/php"
                     [] dir \in {"/usr/local", "/usr/local/bin"} -> "/usr/local/bin/php"
                     [] dir = "/opt/php/bin"                     -> "/opt/php/bin/php"
                     [] dir = "/foo/bin"                         -> "/foo/bin/php"
        IN { v \in Found : v.PHPPath \in {php, EvalSymlinks(php)} } ]

findFromDir(dir) == FoundIn[dir]

\* filepath.Join(configDir, "bin"), where the php shims are
phpShimDir == "/home/u/.symfony5/bin"

\* the values $PATH can have, split at the list separator
PathEnvs ==
    { <<>>,
      <<"/usr/local/bin", "/usr/bin">>,
      <<"/bin", "/usr/bin", "/opt/php/bin">>,
      <<"/home/u/.symfony5/bin", "/foo/bin", "/usr/bin">>,
      <<"/opt/php/bin", "", "/opt/php/bin", "/foo/bin">>,
      <<"/nonexistent", "/usr/bin">> }

\* the loop of pathDirectories over the rest of $PATH
RECURSIVE pathDirectoriesFrom(_, _, _)
pathDirectoriesFrom(list, dirs, seenDirs) ==
    IF list = <<>> THEN dirs
    ELSE LET edir == EvalSymlinks(Head(list)) IN
         IF edir = phpShimDir \/ edir = "" \/ edir \in seenDirs
         THEN pathDirectoriesFrom(Tail(list), dirs, seenDirs)
         ELSE pathDirectoriesFrom(Tail(list), Append(dirs, edir), seenDirs \cup {edir})

\* pathDirectories: the resolved directories of $PATH, each once
pathDirectories(path) == pathDirectoriesFrom(path, <<>>, {})

-----------------------------------------------------------------------------
(* addVersion *)

\* the serving rank addVersion compares
Score(v) ==
    IF v.FPMPath # "" THEN 2
    ELSE IF v.CGIPath # "" THEN 1
    ELSE 0

\* Lookup without the second look under the symlink target
LookupPathOnly(sn, path) ==
    IF path \in DOMAIN sn THEN <<sn[path]>> ELSE <<>>

\* the index under which the installation of `path` is already known, as a
\* sequence holding it, or <<>>: seen[path], else seen[symlink target]
Lookup(sn, path) ==
    LET sl == EvalSymlinks(path) IN
    IF path \in DOMAIN sn THEN <<sn[path]>>
    ELSE IF sl # "" /\ sl \in DOMAIN sn THEN <<sn[sl]>>
    ELSE <<>>

\* addVersion replacing the stored record on an equal rank too
addVersionReplacesOnTie(vs, sn, version) ==
    LET found == Lookup(sn, version.PHPPath)
        sl    == EvalSymlinks(version.PHPPath)
    IN
    IF found = <<>>
    THEN LET keys == {version.PHPPath} \cup (IF sl # "" THEN {sl} ELSE {}) IN
         [ versions |-> Append(vs, version),
           seen     |-> [p \in DOMAIN sn \cup keys |->
                            IF p \in keys THEN Len(vs) ELSE sn[p]],
           idx      |-> Len(vs) ]
    ELSE LET idx == found[1] IN
         [ versions |-> IF Score(version) >= Score(vs[idx + 1])
                        THEN [vs EXCEPT ![idx + 1] = version]
                        ELSE vs,
           seen     |-> sn,
           idx      |-> idx ]

\* addVersion, as the new (versions, seen) and the returned index
addVersion(vs, sn, version) ==
    LET found == Lookup(sn, version.PHPPath)
        sl    == EvalSymlinks(version.PHPPath)
    IN
    IF found = <<>>
    THEN LET keys == {version.PHPPath} \cup (IF sl # "" THEN {sl} ELSE {}) IN
         [ versions |-> Append(vs, version),
           seen     |-> [p \in DOMAIN sn \cup keys |->
                            IF p \in keys THEN Len(vs) ELSE sn[p]],
           idx      |-> Len(vs) ]
    ELSE LET idx == found[1] IN
         [ versions |-> IF Score(version) > Score(vs[idx + 1])
                        THEN [vs EXCEPT ![idx + 1] = version]
                        ELSE vs,
           seen     |-> sn,
           idx      |-> idx ]

-----------------------------------------------------------------------------
(* Sorting *)

\* versions.Less
Less(a, b) == LessThan(a.FullVersion, b.FullVersion)

\* sort.Sort left out: the records stay as they are
SortResultsUnsorted(vs) == {vs}

\* what sort.Sort may leave: any arrangement of the same records in which no
\* record is followed by a smaller one (sort.Sort is not stable)
SortResults(vs) ==
    { [i \in 1..Len(vs) |-> vs[f[i]]] :
        f \in { g \in [1..Len(vs) -> 1..Len(vs)] :
                  /\ \A i, j \in 1..Len(vs) : i # j => g[i] # g[j]
                  /\ \A i, j \in 1..Len(vs) : i < j => ~Less(vs[g[j]], vs[g[i]]) } }

-----------------------------------------------------------------------------
(* Queries *)

\* IsVersionAvailable with a loop that stops before the first record
IsVersionAvailableSkipsFirst(vs, version) ==
    \E i \in 2..Len(vs) :
        vs[i].Version = version \/ HasPrefix(vs[i].Version, version)

\* IsVersionAvailable
IsVersionAvailable(vs, version) ==
    \E i \in 1..Len(vs) :
        vs[i].Version = version \/ HasPrefix(vs[i].Version, version)

\* A warning is the format of its fmt.Sprintf with the arguments it prints:
\* the version asked for, the source label and, for the first format, the
\* prefix fallen back to. The empty string has the empty format.
NoWarning == [format |-> "", version |-> <<>>, source |-> "", fallback |-> <<>>]

FallbackToWarning(versionPrefix, source, newVersionPrefix) ==
    [ format   |-> "the current dir requires PHP %s (%s), but this version is not available: fallback to %s",
      version  |-> versionPrefix,
      source   |-> source,
      fallback |-> newVersionPrefix ]

NotAvailableWarning(versionPrefix, source) ==
    [ format   |-> "the current dir requires PHP %s (%s), but this version is not available",
      version  |-> versionPrefix,
      source   |-> source,
      fallback |-> <<>> ]

\* fallbackVersion preferring the most recent record to the system version
fallbackVersionRecentFirst(vs, pv, warning) ==
    IF Len(vs) # 0
    THEN [ version |-> <<vs[Len(vs)]>>, source |-> "most recent PHP version",
           warning |-> warning, err |-> "" ]
    ELSE IF pv # <<>>
    THEN [ version |-> pv, source |-> "default version in $PATH",
           warning |-> warning, err |-> "" ]
    ELSE [ version |-> <<>>, source |-> "",
           warning |-> warning, err |-> "no PHP binaries detected" ]

\* fallbackVersion taking a store of one record for an empty one
fallbackVersionOffByOne(vs, pv, warning) ==
    IF pv # <<>>
    THEN [ version |-> pv, source |-> "default version in $PATH",
           warning |-> warning, err |-> "" ]
    ELSE IF Len(vs) <= 1
    THEN [ version |-> <<>>, source |-> "",
           warning |-> warning, err |-> "no PHP binaries detected" ]
    ELSE [ version |-> <<vs[Len(vs)]>>, source |-> "most recent PHP version",
           warning |-> warning, err |-> "" ]

\* fallbackVersion
fallbackVersion(vs, pv, warning) ==
    IF pv # <<>>
    THEN [ version |-> pv, source |-> "default version in $PATH",
           warning |-> warning, err |-> "" ]
    ELSE IF Len(vs) = 0
    THEN [ version |-> <<>>, source |-> "",
           warning |-> warning, err |-> "no PHP binaries detected" ]
    ELSE [ version |-> <<vs[Len(vs)]>>, source |-> "most recent PHP version",
           warning |-> warning, err |-> "" ]

\* the "99" test of bestVersion: the prefix has two dots and its last
\* component is 99
IsWildcard(versionPrefix) ==
    LET pos == LastIndexByte(versionPrefix, ".") IN
    /\ pos # IndexByte(versionPrefix, ".")
    /\ Slice(versionPrefix, pos + 1, Len(versionPrefix)) = <<"9", "9">>

\* isPatchVersion of bestVersion
IsPatchVersion(versionPrefix) ==
    /\ LastIndexByte(versionPrefix, ".") # IndexByte(versionPrefix, ".")
    /\ ~IsWildcard(versionPrefix)

\* the exact-match loop comparing with the prefix already cut to X.Y
ExactMatchTruncated(vs, versionPrefix) ==
    LET cut == Slice(versionPrefix, 0, LastIndexByte(versionPrefix, ".")) IN
    IF \E i \in 1..Len(vs) : vs[i].Version = cut
    THEN CHOOSE i \in 1..Len(vs) : vs[i].Version = cut
    ELSE 0

\* the exact-match loop of bestVersion: the first index (1-based) whose
\* version string is the prefix, 0 when there is none
ExactMatch(vs, versionPrefix) ==
    IF \E i \in 1..Len(vs) : vs[i].Version = versionPrefix
    THEN CHOOSE i \in 1..Len(vs) :
            /\ vs[i].Version = versionPrefix
            /\ \A j \in 1..(i - 1) : vs[j].Version # versionPrefix
    ELSE 0

\* the prefix loop running from the first record up
PrefixMatchFirst(vs, versionPrefix) ==
    IF \E i \in 1..Len(vs) : HasPrefix(vs[i].Version, versionPrefix)
    THEN CHOOSE i \in 1..Len(vs) :
            /\ HasPrefix(vs[i].Version, versionPrefix)
            /\ \A j \in 1..(i - 1) : ~HasPrefix(vs[j].Version, versionPrefix)
    ELSE 0

\* the prefix loop of bestVersion: the last index (1-based) whose version
\* string starts with the prefix, 0 when there is none
PrefixMatch(vs, versionPrefix) ==
    IF \E i \in 1..Len(vs) : HasPrefix(vs[i].Version, versionPrefix)
    THEN CHOOSE i \in 1..Len(vs) :
            /\ HasPrefix(vs[i].Version, versionPrefix)
            /\ \A j \in (i + 1)..Len(vs) : ~HasPrefix(vs[j].Version, versionPrefix)
    ELSE 0

\* bestVersion
bestVersion(vs, pv, requested, source) ==
    LET pos0     == LastIndexByte(requested, ".")
        wild     == IsWildcard(requested)
        prefix1  == IF wild THEN Slice(requested, 0, pos0) ELSE requested
        pos      == IF wild THEN LastIndexByte(prefix1, ".") ELSE pos0
        isPatch  == IsPatchVersion(requested)
        exact    == IF isPatch THEN ExactMatch(vs, prefix1) ELSE 0
        prefix2  == IF isPatch THEN Slice(prefix1, 0, pos) ELSE prefix1
        warning  == IF isPatch THEN FallbackToWarning(prefix1, source, prefix2)
                    ELSE NoWarning
        i        == PrefixMatch(vs, prefix2)
    IN
    IF exact # 0
    THEN [ version |-> <<vs[exact]>>, source |-> source,
           warning |-> NoWarning, err |-> "" ]
    ELSE IF i # 0
    THEN [ version |-> <<vs[i]>>, source |-> source,
           warning |-> warning, err |-> "" ]
    ELSE fallbackVersion(vs, pv, NotAvailableWarning(prefix2, source))

-----------------------------------------------------------------------------
(* BestVersionForDir *)

IsSpace(c) == c \in {" ", "\t", "\n", "\r"}

\* bytes.TrimSpace
RECURSIVE TrimSpace(_)
TrimSpace(b) ==
    IF b = <<>> THEN <<>>
    ELSE IF IsSpace(Head(b)) THEN TrimSpace(Tail(b))
    ELSE IF IsSpace(b[Len(b)]) THEN TrimSpace(SubSeq(b, 1, Len(b) - 1))
    ELSE b

\* filepath.Dir, for the directories of the project tree
Dir(dir) ==
    CASE dir = "/app/public" -> "/app"
      [] dir = "/app"        -> "/"
      [] dir = "/work"       -> "/"
      [] OTHER               -> "/"

\* filepath.Join(dir, filename)
PathJoin(dir, filename) ==
    IF dir = "/" THEN "/" \o filename ELSE dir \o "/" \o filename

\* the files BestVersionForDir looks for
FileNames == {".php-version", "composer.json", ".symfony.cloud.yaml", ".platform.app.yaml"}

\* A file is its bytes, with what json.Unmarshal reads at config.platform.php
\* and what yaml.Unmarshal reads at type. A version-pin file:
Pin(bytes) == [bytes |-> bytes, php |-> <<>>, type |-> <<>>]

\* a composer.json with this config.platform.php (<<>> when it has none)
Manifest(php) == [bytes |-> <<"{", "}">>, php |-> php, type |-> <<>>]

\* a cloud descriptor with this type
Descriptor(type) == [bytes |-> <<"t", "y", "p", "e">>, php |-> <<>>, type |-> type]

\* readVersion: nil (<<>>) when the file is missing or blank, else the file
\* with its bytes trimmed. fs[filename][dir] is <<>> or holds the file.
readVersion(fs, dir, filename) ==
    IF fs[filename][dir] = <<>> THEN <<>>
    ELSE LET contents == fs[filename][dir][1] IN
         IF TrimSpace(contents.bytes) = <<>> THEN <<>>
         ELSE << [contents EXCEPT !.bytes = TrimSpace(contents.bytes)] >>

\* versionForDir: the nearest file of that name, from dir upwards
RECURSIVE versionForDir(_, _, _)
versionForDir(fs, dir, filename) ==
    LET version == readVersion(fs, dir, filename)
        upDir   == Dir(dir)
    IN
    IF version # <<>> THEN [version |-> version, foundDir |-> dir]
    ELSE IF upDir = dir \/ upDir = "." THEN [version |-> <<>>, foundDir |-> ""]
    ELSE versionForDir(fs, upDir, filename)

\* what a call returns when it does not return: the slice expression [0:2]
\* of a one-element slice panics
Panic ==
    [ panic |-> TRUE,
      out   |-> [version |-> <<>>, source |-> "", warning |-> NoWarning, err |-> ""] ]

\* BestVersionForDir, env being the environment of the process: the value of
\* FORCED_PHP_VERSION, the working directory and the files of the disk
BestVersionForDir(vs, pv, env, dir) ==
    LET parts    == Split(env.forced)
        minor    == Join(SubSeq(parts, 1, 2))
        pin      == versionForDir(env.fs, dir, ".php-version")
        composer == versionForDir(env.fs, dir, "composer.json")
        wdPin    == versionForDir(env.fs, env.wd, ".php-version")
        symfony  == versionForDir(env.fs, dir, ".symfony.cloud.yaml")
        platform == versionForDir(env.fs, dir, ".platform.app.yaml")
        Return(out) == [panic |-> FALSE, out |-> out]
    IN
    IF env.forced # <<>> /\ Len(parts) < 2 THEN Panic
    ELSE IF env.forced # <<>> /\ NewVersion(minor) # <<>>
    THEN Return(bestVersion(vs, pv, minor, "internal forced version"))
    ELSE IF pin.version # <<>>
    THEN Return(bestVersion(vs, pv, pin.version[1].bytes,
            ".php-version from current dir: " \o PathJoin(pin.foundDir, ".php-version")))
    ELSE IF composer.version # <<>> /\ composer.version[1].php # <<>>
    THEN Return(bestVersion(vs, pv, composer.version[1].php,
            "composer.json from current dir: " \o PathJoin(composer.foundDir, "composer.json")))
    ELSE IF wdPin.version # <<>>
    THEN Return(bestVersion(vs, pv, wdPin.version[1].bytes,
            ".php-version from working dir: " \o PathJoin(wdPin.foundDir, ".php-version")))
    ELSE IF symfony.version # <<>> /\ HasPrefix(symfony.version[1].type, <<"p", "h", "p", ":">>)
    THEN Return(bestVersion(vs, pv, Slice(symfony.version[1].type, 4, Len(symfony.version[1].type)),
            "SymfonyCloud: " \o PathJoin(symfony.foundDir, ".symfony.cloud.yaml")))
    ELSE IF platform.version # <<>> /\ HasPrefix(platform.version[1].type, <<"p", "h", "p", ":">>)
    THEN Return(bestVersion(vs, pv, Slice(platform.version[1].type, 4, Len(platform.version[1].type)),
            "Platform.sh: " \o PathJoin(platform.foundDir, ".platform.app.yaml")))
    ELSE Return(fallbackVersion(vs, pv, NoWarning))

-----------------------------------------------------------------------------
(* The state machine *)

\* the version requirements the callers pass to bestVersion
Requests ==
    { <<"8">>,
      <<"8", ".", "1">>,
      <<"5", ".", "6">>,
      <<"8", ".", "1", ".", "2">>,
      <<"8", ".", "1", ".", "5">>,
      <<"8", ".", "1", ".", "9", "9">>,
      <<"8", ".", "1", "-", "f", "p", "m">>,
      <<>> }

\* the provenance labels the callers pass to bestVersion
Sources == {"testing"}

NoRet == [op |-> "none"]

Range(s) == { s[i] : i \in 1..Len(s) }

\* the non-empty prefixes of a string
Prefixes(s) == { SubSeq(s, 1, n) : n \in 1..Len(s) }

\* the store has no discoverFromDir under way
NoWalk == [pathRegexp |-> <<>>, todo |-> <<>>, visited |-> {}, inspected |-> {}]

\* the directory of the script and the working directory of the process
ScriptDir == "/app/public"

WorkDir == "/work"

\* the directories of the project tree
ProjectDirs == {"/app/public", "/app", "/work", "/"}

\* a process with no forced version, in a tree without project files
NoProject ==
    [ forced |-> <<>>, wd |-> WorkDir,
      fs     |-> [name \in FileNames |-> [dir \in ProjectDirs |-> <<>>]],
      vernum |-> <<>> ]

\* the prefixes doDiscover probes first on every platform but Windows
DefaultDirs == {"/usr", "/usr/local"}

\* markSystem without the test for nil: every record found under $PATH is
\* flagged
markSystemEvery(vs, pv, idx) ==
    [ versions    |-> [vs EXCEPT ![idx + 1].IsSystem = TRUE],
      pathVersion |-> IF pv = <<>>
                      THEN << [vs[idx + 1] EXCEPT !.IsSystem = TRUE] >>
                      ELSE pv ]

\* discover: the record of the first installation found under $PATH becomes
\* the system version
markSystem(vs, pv, idx) ==
    IF pv = <<>>
    THEN [ versions    |-> [vs EXCEPT ![idx + 1].IsSystem = TRUE],
           pathVersion |-> << [vs[idx + 1] EXCEPT !.IsSystem = TRUE] >> ]
    ELSE [ versions |-> vs, pathVersion |-> pv ]

\* json.MarshalIndent of the records: FullVersion is not written
Marshal(vs) ==
    [ i \in 1..Len(vs) |->
        [ version   |-> vs[i].Version,
          php_path  |-> vs[i].PHPPath,
          fpm_path  |-> vs[i].FPMPath,
          cgi_path  |-> vs[i].CGIPath,
          is_system |-> vs[i].IsSystem ] ]

\* loadCache leaving the loop at the first entry whose version does not parse
RECURSIVE loadCacheStopsAtBad(_, _, _)
loadCacheStopsAtBad(entries, vs, pv) ==
    IF entries = <<>> THEN [versions |-> vs, pathVersion |-> pv]
    ELSE LET e  == Head(entries)
             fv == NewVersion(e.version)
             v  == [ Version     |-> e.version,
                     FullVersion |-> fv,
                     PHPPath     |-> e.php_path,
                     FPMPath     |-> e.fpm_path,
                     CGIPath     |-> e.cgi_path,
                     IsSystem    |-> e.is_system ]
         IN
         IF fv = <<>> THEN [versions |-> vs, pathVersion |-> pv]
         ELSE loadCacheStopsAtBad(Tail(entries), Append(vs, v),
                                  IF e.is_system THEN <<v>> ELSE pv)

\* loadVersions, the loop over the entries read from the cache: an entry
\* whose version does not parse is skipped, an entry marked is_system becomes
\* the system version
RECURSIVE loadCache(_, _, _)
loadCache(entries, vs, pv) ==
    IF entries = <<>> THEN [versions |-> vs, pathVersion |-> pv]
    ELSE LET e  == Head(entries)
             fv == NewVersion(e.version)
             v  == [ Version     |-> e.version,
                     FullVersion |-> fv,
                     PHPPath     |-> e.php_path,
                     FPMPath     |-> e.fpm_path,
                     CGIPath     |-> e.cgi_path,
                     IsSystem    |-> e.is_system ]
         IN
         IF fv = <<>> THEN loadCache(Tail(entries), vs, pv)
         ELSE loadCache(Tail(entries), Append(vs, v),
                        IF e.is_system THEN <<v>> ELSE pv)

\* New, before loadVersions runs, on a host that has no cache yet
Init ==
    /\ versions = <<>>
    /\ pathVersion = <<>>
    /\ seen = [p \in {} |-> 0]
    /\ pc = "new"
    /\ adds = 0
    /\ last = <<>>
    /\ ret = NoRet
    /\ pathEnv = <<>>
    /\ paths = <<>>
    /\ cache = <<>>
    /\ walk = NoWalk
    /\ environ = NoProject

\* loadVersions finds no cache and calls discover, which calls doDiscover
Discover ==
    /\ pc = "new"
    /\ cache = <<>>
    /\ pc' = "defaults"
    /\ UNCHANGED <<versions, pathVersion, seen, adds, last, ret, pathEnv, paths, cache, walk, environ>>

\* doDiscover: a platform probe (addFromDir, discoverFromDir) yields a record
\* and hands it to addVersion; the probes of the default prefixes come first
AddFromDir(v) ==
    /\ pc \in {"defaults", "strategies"}
    /\ pc = "defaults" => \E dir \in DefaultDirs : v \in findFromDir(dir)
    /\ adds < MaxAdds
    /\ LET a == addVersion(versions, seen, v) IN
        /\ versions' = a.versions
        /\ seen' = a.seen
        /\ last' = << [arg |-> v, idx |-> a.idx,
                       dup |-> Lookup(seen, v.PHPPath) # <<>>] >>
    /\ adds' = adds + 1
    /\ ret' = NoRet
    /\ UNCHANGED <<pathVersion, pc, pathEnv, paths, cache, walk, environ>>

\* doDiscover: the default prefixes are done, the probes that follow them
\* (phpbrew, phpenv, XAMPP, Homebrew, ...) start
Strategies ==
    /\ pc = "defaults"
    /\ pc' = "strategies"
    /\ ret' = NoRet
    /\ UNCHANGED <<versions, pathVersion, seen, adds, last, pathEnv, paths, cache, walk, environ>>

\* ScanPath moved up: $PATH is read when the default prefixes are done
ScanPathAfterDefaults ==
    /\ pc = "defaults"
    /\ pc' = "path"
    /\ \E path \in PathEnvs :
          /\ pathEnv' = path
          /\ paths' = pathDirectories(path)
    /\ ret' = NoRet
    /\ UNCHANGED <<versions, pathVersion, seen, adds, last, cache, walk, environ>>

\* discover: doDiscover returns, pathDirectories reads $PATH
ScanPath ==
    /\ pc = "strategies"
    /\ pc' = "path"
    /\ \E path \in PathEnvs :
          /\ pathEnv' = path
          /\ paths' = pathDirectories(path)
    /\ ret' = NoRet
    /\ UNCHANGED <<versions, pathVersion, seen, adds, last, cache, walk, environ>>

\* discover: the next directory of $PATH holds an installation; the first
\* record so found becomes the system version
AddFromPath(v) ==
    /\ pc = "path"
    /\ paths # <<>>
    /\ v \in findFromDir(Head(paths))
    /\ adds < MaxAdds
    /\ LET a == addVersion(versions, seen, v)
           m == markSystem(a.versions, pathVersion, a.idx)
       IN
        /\ seen' = a.seen
        /\ last' = << [arg |-> v, idx |-> a.idx,
                       dup |-> Lookup(seen, v.PHPPath) # <<>>] >>
        /\ versions' = m.versions
        /\ pathVersion' = m.pathVersion
    /\ paths' = Tail(paths)
    /\ adds' = adds + 1
    /\ ret' = NoRet
    /\ UNCHANGED <<pc, pathEnv, cache, walk, environ>>

\* discover: findFromDir finds no PHP in the next directory of $PATH
NothingInPath ==
    /\ pc = "path"
    /\ paths # <<>>
    /\ paths' = Tail(paths)
    /\ ret' = NoRet
    /\ UNCHANGED <<versions, pathVersion, seen, pc, adds, last, pathEnv, cache, walk, environ>>

\* loadVersions: discover returns, the records are sorted and written to
\* the cache
LoadVersions ==
    /\ pc = "path"
    /\ paths = <<>>
    /\ versions' \in SortResults(versions)
    /\ cache' = <<Marshal(versions')>>
    /\ pc' = "ready"
    /\ last' = <<>>
    /\ ret' = NoRet
    /\ pathEnv' = <<>>
    /\ UNCHANGED <<pathVersion, seen, adds, paths, walk, environ>>

\* a call of bestVersion. Callers query a store that New has returned, or,
\* as the unit tests do, one they fill by hand with addVersion; nobody can
\* call while discover is in its loop over $PATH.
BestVersion(requested, source) ==
    /\ pc # "path"
    /\ ret' = [op |-> "bestVersion", requested |-> requested, source |-> source,
               out |-> bestVersion(versions, pathVersion, requested, source)]
    /\ UNCHANGED <<versions, pathVersion, seen, pc, adds, last, pathEnv, paths, cache, walk, environ>>

\* BestVersionForDir when no project file asks for a version
FallbackVersion ==
    /\ pc # "path"
    /\ ret' = [op |-> "fallbackVersion",
               out |-> fallbackVersion(versions, pathVersion, NoWarning)]
    /\ UNCHANGED <<versions, pathVersion, seen, pc, adds, last, pathEnv, paths, cache, walk, environ>>

\* a call of IsVersionAvailable
IsVersionAvailableCall(version) ==
    /\ pc # "path"
    /\ ret' = [op |-> "IsVersionAvailable", version |-> version,
               out |-> IsVersionAvailable(versions, version)]
    /\ UNCHANGED <<versions, pathVersion, seen, pc, adds, last, pathEnv, paths, cache, walk, environ>>

Next ==
    \/ Discover
    \/ \E v \in Found : AddFromDir(v)
    \/ Strategies
    \/ ScanPath
    \/ \E v \in Found : AddFromPath(v)
    \/ NothingInPath
    \/ LoadVersions
    \/ \E requested \in Requests, source \in Sources : BestVersion(requested, source)
    \/ FallbackVersion
    \/ \E version \in Requests \cup UNION { Prefixes(l.arg.Version) : l \in Range(last) } :
          IsVersionAvailableCall(version)

Spec == Init /\ [][Next]_vars

-----------------------------------------------------------------------------
(* The cache, from one run of the program to the next *)

\* New in a later run of the program: an empty store again; with reload the
\* cache file is removed first
New(reload) ==
    /\ pc \in {"ready", "loaded"}
    /\ versions' = <<>>
    /\ pathVersion' = <<>>
    /\ seen' = [p \in {} |-> 0]
    /\ pc' = "new"
    /\ adds' = 0
    /\ last' = <<>>
    /\ ret' = NoRet
    /\ cache' = IF reload THEN <<>> ELSE cache
    /\ UNCHANGED <<pathEnv, paths, walk, environ>>

\* between two runs somebody edits the cache and leaves an entry with a
\* version that does not parse
CorruptCache(i) ==
    /\ pc \in {"ready", "loaded"}
    /\ cache # <<>>
    /\ i \in 1..Len(cache[1])
    /\ NewVersion(cache[1][i].version) # <<>>
    /\ cache' = << [cache[1] EXCEPT ![i].version = <<>>] >>
    /\ UNCHANGED <<versions, pathVersion, seen, pc, adds, last, ret, pathEnv, paths, walk, environ>>

\* loadVersions finds the cache: the entries are loaded and sorted
LoadCache ==
    /\ pc = "new"
    /\ cache # <<>>
    /\ LET l == loadCache(cache[1], <<>>, <<>>) IN
        /\ versions' \in SortResults(l.versions)
        /\ pathVersion' = l.pathVersion
    /\ pc' = "loaded"
    /\ UNCHANGED <<seen, adds, last, ret, pathEnv, paths, cache, walk, environ>>

NextCache ==
    \/ Discover
    \/ \E v \in Found : AddFromDir(v)
    \/ Strategies
    \/ ScanPath
    \/ \E v \in Found : AddFromPath(v)
    \/ NothingInPath
    \/ LoadVersions
    \/ \E reload \in BOOLEAN : New(reload)
    \/ \E i \in 1..MaxAdds : CorruptCache(i)
    \/ LoadCache

SpecCache == Init /\ [][NextCache]_vars

-----------------------------------------------------------------------------
(* The projects BestVersionForDir is asked about *)

\* the values of FORCED_PHP_VERSION
Forced ==
    { <<>>,
      <<"8">>,
      <<"8", ".", "1">>,
      <<"8", ".", "1", ".", "2">>,
      <<"x", ".", "1">> }

\* the files a directory can hold under a name; <<>> is no such file
FilesAt(dir, name) ==
    CASE dir = "/app/public" /\ name = ".php-version" ->
           { <<>>, <<Pin(<<"\n">>)>>, <<Pin(<<"8", ".", "1", ".", "2", "\n">>)>> }
      [] dir = "/app/public" /\ name = "composer.json" ->
           { <<>>, <<Manifest(<<>>)>>, <<Manifest(<<"8", ".", "1">>)>> }
      [] dir = "/app" /\ name = ".php-version" ->
           { <<>>, <<Pin(<<"7", ".", "4">>)>> }
      [] dir = "/app" /\ name = "composer.json" ->
           { <<>>, <<Manifest(<<"7", ".", "4">>)>> }
      [] dir = "/app" /\ name = ".symfony.cloud.yaml" ->
           { <<>>, <<Descriptor(<<"p", "h", "p", ":">>)>>,
             <<Descriptor(<<"p", "h", "p", ":", "8", ".", "1">>)>>,
             <<Descriptor(<<"g", "o", ":", "1">>)>> }
      [] dir = "/app" /\ name = ".platform.app.yaml" ->
           { <<>>, <<Descriptor(<<"p", "h", "p", ":", "7", ".", "4">>)>> }
      [] dir = "/work" /\ name = ".php-version" ->
           { <<>>, <<Pin(<<"8", ".", "1", "0">>)>> }
      [] OTHER -> { <<>> }

\* what the directories of the tree can hold under one name
DisksFor(name) ==
    { f \in [ProjectDirs -> UNION { FilesAt(dir, name) : dir \in ProjectDirs }] :
        \A dir \in ProjectDirs : f[dir] \in FilesAt(dir, name) }

\* the disks: for every file name, what each directory holds under it
Disks ==
    { [ name \in FileNames |->
          CASE name = ".php-version"        -> pin
            [] name = "composer.json"       -> composer
            [] name = ".symfony.cloud.yaml" -> symfony
            [] name = ".platform.app.yaml"  -> platform ] :
        pin      \in DisksFor(".php-version"),
        composer \in DisksFor("composer.json"),
        symfony  \in DisksFor(".symfony.cloud.yaml"),
        platform \in DisksFor(".platform.app.yaml") }

\* a store as New returns it: three installations, the oldest is the one of
\* $PATH
StoreOfThree ==
    LET rec(vernum, php, server) ==
            discoverPHPViaPHPConfig(vernum, php, server[1], server[2])[1]
    IN << [rec(<<"7", "0", "4", "3", "3">>, "/foo/bin/php", <<"", "">>)
             EXCEPT !.IsSystem = TRUE],
          rec(<<"8", "0", "1", "0", "2">>, "/usr/bin/php8.1", <<"php-fpm", "php-cgi">>),
          rec(<<"8", "0", "1", "1", "4">>, "/opt/php/bin/php", <<"", "php-cgi">>) >>

\* New has returned: the store of three, or the store of a host without PHP
InitDir ==
    /\ versions \in {<<>>, StoreOfThree}
    /\ pathVersion = IF versions = <<>> THEN <<>> ELSE <<versions[1]>>
    /\ seen = [p \in {} |-> 0]
    /\ pc = "ready"
    /\ adds = 0
    /\ last = <<>>
    /\ ret = NoRet
    /\ pathEnv = <<>>
    /\ paths = <<>>
    /\ cache = <<Marshal(versions)>>
    /\ walk = NoWalk
    /\ environ \in { [forced |-> forced, wd |-> WorkDir, fs |-> fs, vernum |-> <<>>] :
                        forced \in Forced, fs \in Disks }

\* a call of BestVersionForDir
BestVersionForDirCall ==
    /\ pc = "ready"
    /\ LET r == BestVersionForDir(versions, pathVersion, environ, ScriptDir) IN
          ret' = [op |-> "BestVersionForDir", panic |-> r.panic, out |-> r.out]
    /\ UNCHANGED <<versions, pathVersion, seen, pc, adds, last, pathEnv, paths, cache, walk, environ>>

NextDir == BestVersionForDirCall

SpecDir == InitDir /\ [][NextDir]_vars

-----------------------------------------------------------------------------
(* The php-config files a probe can come across *)

\* the digits the vernum= values are made of
VernumDigits == {"0", "1", "8"}

\* a probe is about to read a php-config with some vernum= value
InitVernum ==
    /\ versions = <<>>
    /\ pathVersion = <<>>
    /\ seen = [p \in {} |-> 0]
    /\ pc = "strategies"
    /\ adds = 0
    /\ last = <<>>
    /\ ret = NoRet
    /\ pathEnv = <<>>
    /\ paths = <<>>
    /\ cache = <<>>
    /\ walk = NoWalk
    /\ \E n \in 0..MaxVernumLen :
          \E vernum \in [1..n -> VernumDigits] :
              environ = [NoProject EXCEPT !.vernum = vernum]

\* a call of discoverPHPViaPHPConfig
DiscoverPHPViaPHPConfigCall ==
    /\ pc = "strategies"
    /\ ret' = [op  |-> "discoverPHPViaPHPConfig",
               out |-> discoverPHPViaPHPConfig(environ.vernum, "/opt/php/bin/php",
                                               "", "php-cgi")]
    /\ UNCHANGED <<versions, pathVersion, seen, pc, adds, last, pathEnv, paths, cache, walk, environ>>

NextVernum == DiscoverPHPViaPHPConfigCall

SpecVernum == InitVernum /\ [][NextVernum]_vars

-----------------------------------------------------------------------------
(* discoverFromDir *)

\* The tree under the root that discoverFromDir walks. A path is the
\* sequence of its names below the root, <<>> being the root itself.
TreeDirs ==
    { <<>>, <<"a">>, <<"a", "b">>, <<"a", "b", "c">>, <<"a", "b", "c", "d">>,
      <<"p">>, <<"p", "q">> }

TreeFiles == { <<"a", "g">>, <<"f">> }

\* what a directory holds, in the lexical order filepath.Walk follows
Children(path) ==
    CASE path = <<>>              -> << <<"a">>, <<"f">>, <<"p">> >>
      [] path = <<"a">>           -> << <<"a", "b">>, <<"a", "g">> >>
      [] path = <<"a", "b">>      -> << <<"a", "b", "c">> >>
      [] path = <<"a", "b", "c">> -> << <<"a", "b", "c", "d">> >>
      [] path = <<"p">>           -> << <<"p", "q">> >>
      [] OTHER                    -> <<>>

\* the classes of names the segments of the patterns stand for; the last
\* takes any name
NameClasses ==
    { {"a", "p"}, {"b"}, {"c"}, {"a", "b", "c", "d", "p", "q"} }

\* The patterns doDiscover hands over are anchored at both ends and made of
\* segments that take no "/", joined by "/" (^php@(?:[\d\.]+)/(?:[\d\._]+)$,
\* ^php(?:\d+)/root/usr$, ...): a pattern is the sequence of the classes of
\* its segments. <<>> is the nil pattern, <<p>> holds the pattern p.
PathRegexps ==
    { <<>> } \cup
    { <<p>> : p \in UNION { [1..n -> NameClasses] : n \in 1..(MaxSeps + 1) } }

\* strings.Count(pathRegexp.String(), "/")
CountSeps(p) == Len(p) - 1

\* pathRegexp.MatchString(rel)
MatchString(p, rel) ==
    /\ Len(rel) = Len(p)
    /\ \A i \in 1..Len(p) : rel[i] \in p[i]

\* maxDepth of discoverFromDir
maxDepth(pathRegexp) ==
    IF pathRegexp = <<>> THEN 1 ELSE 1 + CountSeps(pathRegexp[1])

\* the walk function going on below a directory it has inspected
walkFnKeepsWalking(pathRegexp, path) ==
    IF path = <<>> \/ path \in TreeFiles
    THEN [inspect |-> FALSE, skipDir |-> FALSE]
    ELSE IF Len(path) - 1 > maxDepth(pathRegexp)
    THEN [inspect |-> FALSE, skipDir |-> TRUE]
    ELSE IF pathRegexp = <<>> \/ MatchString(pathRegexp[1], path)
    THEN [inspect |-> TRUE, skipDir |-> FALSE]
    ELSE [inspect |-> FALSE, skipDir |-> FALSE]

\* the function discoverFromDir hands to filepath.Walk, for a path read
\* without error: whether addFromDir is called on it and whether SkipDir is
\* returned. strings.Count(rel, separator) is Len(path) - 1.
walkFn(pathRegexp, path) ==
    IF path = <<>> \/ path \in TreeFiles
    THEN [inspect |-> FALSE, skipDir |-> FALSE]
    ELSE IF Len(path) - 1 > maxDepth(pathRegexp)
    THEN [inspect |-> FALSE, skipDir |-> TRUE]
    ELSE IF pathRegexp = <<>> \/ MatchString(pathRegexp[1], path)
    THEN [inspect |-> TRUE, skipDir |-> TRUE]
    ELSE [inspect |-> FALSE, skipDir |-> FALSE]

\* a strategy of doDiscover has called discoverFromDir with some pattern
InitWalk ==
    /\ versions = <<>>
    /\ pathVersion = <<>>
    /\ seen = [p \in {} |-> 0]
    /\ pc = "strategies"
    /\ adds = 0
    /\ last = <<>>
    /\ ret = NoRet
    /\ pathEnv = <<>>
    /\ paths = <<>>
    /\ cache = <<>>
    /\ environ = NoProject
    /\ \E pathRegexp \in PathRegexps :
          walk = [pathRegexp |-> pathRegexp, todo |-> << <<>> >>,
                  visited |-> {}, inspected |-> {}]

\* filepath.Walk calls the function on the next path and descends into it
\* unless it is a file or SkipDir is returned
WalkStep ==
    /\ pc = "strategies"
    /\ walk.todo # <<>>
    /\ LET path == Head(walk.todo)
           r    == walkFn(walk.pathRegexp, path)
       IN walk' = [walk EXCEPT
                     !.todo      = IF r.skipDir THEN Tail(walk.todo)
                                   ELSE Children(path) \o Tail(walk.todo),
                     !.visited   = @ \cup {path},
                     !.inspected = IF r.inspect THEN @ \cup {path} ELSE @]
    /\ UNCHANGED <<versions, pathVersion, seen, pc, adds, last, ret, pathEnv, paths, cache, environ>>

NextWalk == WalkStep

SpecWalk == InitWalk /\ [][NextWalk]_vars

-----------------------------------------------------------------------------
(* Vocabulary of the properties *)

\* the store is in ascending order of parsed version
IsSorted(vs) == \A i, j \in 1..Len(vs) : i < j => ~Less(vs[j], vs[i])

\* number of dots of a string
Dots(s) == Cardinality({ i \in 1..Len(s) : s[i] = "." })

\* the string is a dot-separated list of n numbers
IsNumeric(s, n) ==
    /\ Len(Split(s)) = n
    /\ \A i \in 1..n :
          /\ Split(s)[i] # <<>>
          /\ \A j \in 1..Len(Split(s)[i]) : IsDigit(Split(s)[i][j])

\* the record is a patch release of the minor version X.Y that the numeric
\* string s (X.Y or X.Y.Z) names
OfMinor(v, s) ==
    /\ v.FullVersion[1] = Atoi(Split(s)[1])
    /\ v.FullVersion[2] = Atoi(Split(s)[2])

\* no record of the set rs has a greater parsed version than v
IsHighestOf(v, rs) == \A w \in rs : ~Less(v, w)

\* the part of a flavor-qualified requirement before and after its dash
BeforeDash(s) == Slice(s, 0, IndexByte(s, "-"))

AfterDash(s) == Slice(s, IndexByte(s, "-") + 1, Len(s))

\* a record with its system flag cleared
Unmarked(v) == [v EXCEPT !.IsSystem = FALSE]

\* two binary paths are the same, or one is the symlink target of the other
SameInstallation(p, q) ==
    \/ p = q
    \/ EvalSymlinks(p) = q
    \/ EvalSymlinks(q) = p

\* the last query was bestVersion and returned a record without error
ReturnedRecord ==
    /\ ret.op = "bestVersion"
    /\ ret.out.err = ""
    /\ Len(ret.out.version) = 1
    /\ ret.out.version[1] \in Range(versions)

-----------------------------------------------------------------------------
(* Properties of bestVersion *)

\* C1: on a store sorted by parsed version, bestVersion with a prefix X or
\* X.Y that some record's version string starts with returns a record of
\* greatest parsed version among the records whose version string starts
\* with the prefix, with the caller's source label, no warning and no error.
C1_HighestMatchingPrefix ==
    ( /\ ret.op = "bestVersion"
      /\ IsSorted(versions)
      /\ Dots(ret.requested) <= 1
      /\ \E v \in Range(versions) : HasPrefix(v.Version, ret.requested) )
    => /\ ReturnedRecord
       /\ HasPrefix(ret.out.version[1].Version, ret.requested)
       /\ IsHighestOf(ret.out.version[1],
                      { v \in Range(versions) : HasPrefix(v.Version, ret.requested) })
       /\ ret.out.source = ret.source
       /\ ret.out.warning = NoWarning

\* "8.1" asked of a store holding 8.1.2 and 8.1.14: 8.1.14 is returned
C1_Witness ==
    /\ ret.op = "bestVersion"
    /\ pc = "ready"
    /\ ret.requested = <<"8", ".", "1">>
    /\ \E v \in Range(versions) : v.Version = <<"8", ".", "1", ".", "2">>
    /\ ret.out.version # <<>>
    /\ ret.out.version[1].Version = <<"8", ".", "1", ".", "1", "4">>

\* C2: bestVersion with a prefix X.Y.Z whose patch is not 99 and that is the
\* version string of a stored record returns such a record, with the caller's
\* source label, no warning and no error, in whatever order the store is and
\* whatever other patches it holds.
C2_ExactPatch ==
    ( /\ ret.op = "bestVersion"
      /\ Dots(ret.requested) = 2
      /\ Split(ret.requested)[3] # <<"9", "9">>
      /\ \E v \in Range(versions) : v.Version = ret.requested )
    => /\ ReturnedRecord
       /\ ret.out.version[1].Version = ret.requested
       /\ ret.out.source = ret.source
       /\ ret.out.warning = NoWarning

\* "8.1.2" asked of the unsorted store <<8.1.14, 8.1.2>>: 8.1.2 is returned
C2_Witness ==
    /\ ret.op = "bestVersion"
    /\ ret.requested = <<"8", ".", "1", ".", "2">>
    /\ Len(versions) = 2
    /\ versions[1].Version = <<"8", ".", "1", ".", "1", "4">>
    /\ versions[2].Version = <<"8", ".", "1", ".", "2">>
    /\ ret.out.version = <<versions[2]>>

\* C3: once loadVersions has sorted the store, bestVersion with a prefix X.Y.Z (patch not 99) that
\* no record has as its version string, while a record of minor X.Y is
\* stored, returns the highest-versioned record of minor X.Y, with no error
\* and a warning that names X.Y.Z and the source label.
C3_PatchFallsBackToMinor ==
    ( /\ ret.op = "bestVersion"
      /\ pc = "ready"
      /\ IsNumeric(ret.requested, 3)
      /\ Split(ret.requested)[3] # <<"9", "9">>
      /\ \A v \in Range(versions) : v.Version # ret.requested
      /\ \E v \in Range(versions) : OfMinor(v, ret.requested) )
    => /\ ReturnedRecord
       /\ OfMinor(ret.out.version[1], ret.requested)
       /\ IsHighestOf(ret.out.version[1],
                      { v \in Range(versions) : OfMinor(v, ret.requested) })
       /\ ret.out.warning.format # ""
       /\ ret.out.warning.version = ret.requested
       /\ ret.out.warning.source = ret.source

\* C4: once loadVersions has sorted the store, bestVersion with a prefix X.Y.99 returns, when a
\* record of minor X.Y is stored, the highest-versioned record of minor X.Y
\* with no warning (the patch 99 is a wildcard, no exact match is tried).
C4_Wildcard99 ==
    ( /\ ret.op = "bestVersion"
      /\ pc = "ready"
      /\ IsNumeric(ret.requested, 3)
      /\ Split(ret.requested)[3] = <<"9", "9">>
      /\ \E v \in Range(versions) : OfMinor(v, ret.requested) )
    => /\ ReturnedRecord
       /\ OfMinor(ret.out.version[1], ret.requested)
       /\ IsHighestOf(ret.out.version[1],
                      { v \in Range(versions) : OfMinor(v, ret.requested) })
       /\ ret.out.source = ret.source
       /\ ret.out.warning = NoWarning

\* C5: once loadVersions has sorted the store, bestVersion with a flavor-qualified prefix X.Y-fpm
\* returns, when a record of minor X.Y with an FPM path is stored, the
\* highest-versioned such record, with no warning.
C5_FlavorQualified ==
    ( /\ ret.op = "bestVersion"
      /\ pc = "ready"
      /\ IndexByte(ret.requested, "-") # -1
      /\ AfterDash(ret.requested) = <<"f", "p", "m">>
      /\ IsNumeric(BeforeDash(ret.requested), 2)
      /\ \E v \in Range(versions) :
            OfMinor(v, BeforeDash(ret.requested)) /\ v.FPMPath # "" )
    => /\ ReturnedRecord
       /\ OfMinor(ret.out.version[1], BeforeDash(ret.requested))
       /\ ret.out.version[1].FPMPath # ""
       /\ IsHighestOf(ret.out.version[1],
                      { v \in Range(versions) :
                          OfMinor(v, BeforeDash(ret.requested)) /\ v.FPMPath # "" })
       /\ ret.out.warning = NoWarning

\* the prefix the scan of bestVersion is left with: X.Y for a request with
\* two dots, the request itself otherwise
Truncated(s) ==
    IF Dots(s) = 2 THEN Slice(s, 0, LastIndexByte(s, ".")) ELSE s

\* no record satisfies the request: none has it as version string, none has
\* a version string starting with its truncated prefix
Unmatched(s) ==
    \A v \in Range(versions) :
        /\ v.Version # s
        /\ ~HasPrefix(v.Version, Truncated(s))

\* C6: when no record matches the request, bestVersion returns the system
\* version labelled "default version in $PATH" if one is recorded, also when
\* a higher-versioned record exists; otherwise, on a sorted store, a record
\* of greatest parsed version labelled "most recent PHP version".
C6_FallbackOrder ==
    ( /\ ret.op = "bestVersion"
      /\ Unmatched(ret.requested) )
    => /\ pathVersion # <<>> =>
             /\ ret.out.version = pathVersion
             /\ ret.out.source = "default version in $PATH"
       /\ (pathVersion = <<>> /\ Len(versions) > 0 /\ IsSorted(versions)) =>
             /\ Len(ret.out.version) = 1
             /\ ret.out.version[1] \in Range(versions)
             /\ IsHighestOf(ret.out.version[1], Range(versions))
             /\ ret.out.source = "most recent PHP version"

\* "5.6" asked of a store whose system version is lower than another record
C6_Witness ==
    /\ ret.op = "bestVersion"
    /\ pc = "ready"
    /\ ret.requested = <<"5", ".", "6">>
    /\ pathVersion # <<>>
    /\ ret.out.version = pathVersion
    /\ \E v \in Range(versions) : Less(pathVersion[1], v)

\* C7: bestVersion and fallbackVersion return the error "no PHP binaries
\* detected", with no record, exactly when the store is empty and no system
\* version is recorded; on a non-empty store they return a record and no
\* error, and a request that no record matches shows in the warning only.
C7_ErrorOnlyWhenEmpty ==
    ret.op \in {"bestVersion", "fallbackVersion"}
    => /\ ret.out.err \in {"", "no PHP binaries detected"}
       /\ ret.out.err # "" <=> (Len(versions) = 0 /\ pathVersion = <<>>)
       /\ ret.out.err # "" => ret.out.version = <<>>
       /\ ret.out.err = "" => Len(ret.out.version) = 1
       /\ (ret.op = "bestVersion" /\ Len(versions) > 0 /\ Unmatched(ret.requested))
             => ret.out.warning.format # ""

\* bestVersion on the empty store
C7_Witness ==
    /\ ret.op = "bestVersion"
    /\ pc = "ready"
    /\ ret.out.err = "no PHP binaries detected"
    /\ ret.out.warning # NoWarning

-----------------------------------------------------------------------------
(* Properties of addVersion *)

\* C8, as stated: after addVersion, IsVersionAvailable is true of every
\* non-empty prefix of the version string of the record just passed.
C8_PassedVersionAvailable ==
    ( /\ ret.op = "IsVersionAvailable"
      /\ last # <<>>
      /\ ret.version \in Prefixes(last[1].arg.Version) )
    => ret.out

\* C8, amended: after addVersion, IsVersionAvailable is true of every
\* non-empty prefix of the version string of the record stored at the index
\* addVersion returned; that record is the one passed whenever its
\* installation was not in the store yet.
C8_StoredVersionAvailable ==
    last # <<>> =>
        /\ last[1].idx + 1 \in 1..Len(versions)
        /\ ~last[1].dup => Unmarked(versions[last[1].idx + 1]) = last[1].arg
        /\ ( /\ ret.op = "IsVersionAvailable"
             /\ ret.version \in Prefixes(versions[last[1].idx + 1].Version) )
           => ret.out

\* IsVersionAvailable("8.1") right after 8.1.14 was added to a store that
\* already held another record
C8_Witness ==
    /\ ret.op = "IsVersionAvailable"
    /\ last # <<>>
    /\ Len(versions) = 2
    /\ last[1].idx = 1
    /\ last[1].arg.Version = <<"8", ".", "1", ".", "1", "4">>
    /\ ret.version = <<"8", ".", "1">>
    /\ ret.out

\* C9: when addVersion is passed a record whose binary path is that of a
\* stored record, or its symlink target, or whose symlink target is that
\* path, the store keeps its length and exactly that stored record is
\* replaced by the passed one if the passed one ranks strictly higher
\* (FPM > CGI > CLI), and nothing changes otherwise.
C9_KeepsHigherRank ==
    [][ adds' = adds + 1 =>
          \A i \in 1..Len(versions) :
              SameInstallation(versions[i].PHPPath, last'[1].arg.PHPPath) =>
                  /\ Len(versions') = Len(versions)
                  /\ seen' = seen
                  /\ last'[1].idx = i - 1
                  /\ \A j \in 1..Len(versions) :
                        Unmarked(versions'[j]) =
                            IF j = i /\ Score(last'[1].arg) > Score(versions[i])
                            THEN last'[1].arg
                            ELSE Unmarked(versions[j])
      ]_vars

\* the symlink /usr/bin/php, found with FPM, has replaced the record of its
\* target found first with a lower rank
C9_Witness ==
    /\ adds = 2
    /\ Len(versions) = 1
    /\ last # <<>>
    /\ last[1].dup
    /\ last[1].arg.PHPPath = "/usr/bin/php"
    /\ Score(last[1].arg) = 2
    /\ versions[1] = last[1].arg
    /\ "/usr/bin/php" \notin DOMAIN seen

\* C10: no two records of the store have the same binary path, and no two
\* have binary paths that resolve to the same symlink target.
C10_UniquePaths ==
    \A i, j \in 1..Len(versions) :
        i # j =>
            /\ versions[i].PHPPath # versions[j].PHPPath
            /\ EvalSymlinks(versions[i].PHPPath) # "" =>
                  EvalSymlinks(versions[i].PHPPath) # EvalSymlinks(versions[j].PHPPath)

\* the target /usr/bin/php8.1 was stored, then its symlink was passed and
\* recognised, next to another installation
C10_Witness ==
    /\ adds = 2
    /\ Len(versions) = 1
    /\ last # <<>>
    /\ last[1].dup
    /\ last[1].arg.PHPPath = "/usr/bin/php"
    /\ versions[1].PHPPath = "/usr/bin/php8.1"

-----------------------------------------------------------------------------
(* Properties of discover *)

\* dirs lists, each once and in the order of their first occurrence, the
\* directories that the entries of $PATH resolve to, the shim directory and
\* the entries that do not resolve left out
FirstOccurrences(path, dirs) ==
    LET first(d) == CHOOSE i \in 1..Len(path) :
                        /\ EvalSymlinks(path[i]) = d
                        /\ \A j \in 1..(i - 1) : EvalSymlinks(path[j]) # d
    IN /\ Range(dirs) = { EvalSymlinks(p) : p \in Range(path) } \ {"", phpShimDir}
       /\ \A i, j \in 1..Len(dirs) : i < j => first(dirs[i]) < first(dirs[j])

\* C11: at most one record of the store has IsSystem set, and a record has it
\* only if it is the record the store holds for the first installation that
\* the scan of $PATH yielded, the directories of $PATH being taken in the
\* order of their first occurrence.
C11_OneSystemVersion ==
    /\ [](\A i, j \in 1..Len(versions) :
              versions[i].IsSystem /\ versions[j].IsSystem => i = j)
    /\ [](\A i \in 1..Len(versions) :
              versions[i].IsSystem => pathVersion = <<versions[i]>>)
    /\ [][ /\ pc' = "path" /\ pc # "path" => FirstOccurrences(pathEnv', paths')
           /\ pc = "path" /\ adds' = adds + 1 =>
                 /\ last'[1].arg \in findFromDir(Head(paths))
                 /\ paths' = Tail(paths)
                 /\ pathVersion' = IF pathVersion = <<>>
                                   THEN << versions'[last'[1].idx + 1] >>
                                   ELSE pathVersion
                 /\ SameInstallation(versions'[last'[1].idx + 1].PHPPath,
                                     last'[1].arg.PHPPath)
           /\ pathVersion' # pathVersion =>
                 pc = "path" /\ adds' = adds + 1 /\ pathVersion = <<>>
         ]_vars

\* discovery is over; the store holds two records and the lower one, found
\* first under $PATH, is the only one flagged
C11_Witness ==
    /\ pc = "ready"
    /\ Len(versions) = 2
    /\ versions[1].IsSystem
    /\ ~versions[2].IsSystem
    /\ pathVersion = <<versions[1]>>
    /\ Less(versions[1], versions[2])

-----------------------------------------------------------------------------
(* Properties of loadVersions *)

\* the binary paths of the cache entries whose version parses, in the order
\* of the file
CachedPaths ==
    LET entries == SelectSeq(cache[1], LAMBDA e : NewVersion(e.version) # <<>>)
    IN [i \in 1..Len(entries) |-> entries[i].php_path]

\* the binary paths of the records, in the order of the store
StoredPaths(vs) == [i \in 1..Len(vs) |-> vs[i].PHPPath]

\* the records vs are those of the binary paths ps, and two of them with
\* equal parsed versions are in the order their paths have in ps
KeepsOrderOfEquals(ps, vs) ==
    /\ Len(vs) = Len(ps)
    /\ Range(StoredPaths(vs)) = Range(ps)
    /\ \A i, j \in 1..Len(ps) :
          i < j =>
              \A k, l \in 1..Len(vs) :
                  /\ vs[k].PHPPath = ps[i]
                  /\ vs[l].PHPPath = ps[j]
                  /\ ~Less(vs[k], vs[l])
                  /\ ~Less(vs[l], vs[k])
                  => k < l

\* C12, as stated: after loadVersions (fresh discovery or cache load) the
\* records are in ascending order of parsed version, and records with equal
\* parsed versions keep the relative order in which they were discovered
\* (the sort is stable).
C12_SortedStable ==
    [][ /\ pc = "path" /\ pc' = "ready" =>
              IsSorted(versions') /\ KeepsOrderOfEquals(StoredPaths(versions), versions')
        /\ pc = "new" /\ pc' = "loaded" =>
              IsSorted(versions') /\ KeepsOrderOfEquals(CachedPaths, versions')
      ]_vars

\* C12, as amended: after loadVersions (fresh discovery or cache load) the
\* records are in ascending order of parsed version, the sort having only
\* rearranged them; nothing is said of the order of records with equal parsed
\* versions.
C12_Sorted ==
    /\ [](pc \in {"ready", "loaded"} => IsSorted(versions))
    /\ [][ /\ pc = "path" /\ pc' = "ready" =>
                 /\ Len(versions') = Len(versions)
                 /\ Range(versions') = Range(versions)
           /\ pc = "new" /\ pc' = "loaded" =>
                 /\ Len(versions') = Len(CachedPaths)
                 /\ Range(StoredPaths(versions')) = Range(CachedPaths)
         ]_vars

\* a store loaded from the cache whose two records have different versions
C12_Witness ==
    /\ pc = "loaded"
    /\ Len(versions) = 2
    /\ Less(versions[1], versions[2])

-----------------------------------------------------------------------------
(* Properties of BestVersionForDir *)

\* the directories from dir up to the root
Upward(dir) ==
    CASE dir = "/app/public" -> <<"/app/public", "/app", "/">>
      [] dir = "/app"        -> <<"/app", "/">>
      [] dir = "/work"       -> <<"/work", "/">>
      [] OTHER               -> <<"/">>

\* the directory holds a file of that name that is not blank
HasFile(dir, name) ==
    /\ environ.fs[name][dir] # <<>>
    /\ \E k \in 1..Len(environ.fs[name][dir][1].bytes) :
          ~IsSpace(environ.fs[name][dir][1].bytes[k])

\* the nearest directory, from dir upwards, with such a file: <<>> or <<d>>
Nearest(dir, name) ==
    LET chain == Upward(dir)
        hits  == { i \in 1..Len(chain) : HasFile(chain[i], name) }
    IN IF hits = {} THEN <<>>
       ELSE << chain[CHOOSE i \in hits : \A j \in hits : i <= j] >>

\* the file found there
FileIn(found, name) == environ.fs[name][found[1]][1]

\* the first two components of a dotted string (the string itself when it
\* has fewer than three)
MajorMinor(s) ==
    LET i    == IndexByte(s, ".")
        rest == Slice(s, i + 1, Len(s))
        j    == IndexByte(rest, ".")
    IN IF i = -1 \/ j = -1 THEN s ELSE Slice(s, 0, i + 1 + j)

PhpColon == <<"p", "h", "p", ":">>

\* the signals in the order of the claim, each with the version string it
\* yields (<<>> for none) and the label of its result. The forced version
\* yields its major.minor prefix when that is a version; a cloud descriptor
\* yields what follows "php:" in its type.
Signals ==
    LET pin      == Nearest(ScriptDir, ".php-version")
        manifest == Nearest(ScriptDir, "composer.json")
        wdPin    == Nearest(environ.wd, ".php-version")
        symfony  == Nearest(ScriptDir, ".symfony.cloud.yaml")
        platform == Nearest(ScriptDir, ".platform.app.yaml")
        cloud(found, name, label) ==
            LET type == IF found = <<>> THEN <<>> ELSE FileIn(found, name).type IN
            [ yields |-> IF HasPrefix(type, PhpColon) THEN Slice(type, 4, Len(type))
                         ELSE <<>>,
              label  |-> IF found = <<>> THEN "" ELSE label \o PathJoin(found[1], name) ]
        pinned(found, label) ==
            [ yields |-> IF found = <<>> THEN <<>>
                         ELSE TrimSpace(FileIn(found, ".php-version").bytes),
              label  |-> IF found = <<>> THEN ""
                         ELSE label \o PathJoin(found[1], ".php-version") ]
    IN << [ yields |-> IF NewVersion(MajorMinor(environ.forced)) # <<>>
                       THEN MajorMinor(environ.forced) ELSE <<>>,
            label  |-> "internal forced version" ],
          pinned(pin, ".php-version from current dir: "),
          [ yields |-> IF manifest = <<>> THEN <<>>
                       ELSE FileIn(manifest, "composer.json").php,
            label  |-> IF manifest = <<>> THEN ""
                       ELSE "composer.json from current dir: "
                                \o PathJoin(manifest[1], "composer.json") ],
          pinned(wdPin, ".php-version from working dir: "),
          cloud(symfony, ".symfony.cloud.yaml", "SymfonyCloud: "),
          cloud(platform, ".platform.app.yaml", "Platform.sh: ") >>

\* the first element of the set of indexes, 0 when it is empty
First(indexes) ==
    IF indexes = {} THEN 0 ELSE CHOOSE i \in indexes : \A j \in indexes : i <= j

\* C13: BestVersionForDir consults (1) the forced version, (2) the
\* version-pin file upward from dir, (3) the platform field of the manifest
\* upward from dir, (4) the version-pin file upward from the working
\* directory, (5) the cloud descriptors upward from dir; its result is
\* bestVersion applied to the version string of the first signal that yields
\* a non-empty one, whatever the signals after it contain, and the
\* no-requirement fallback with an empty warning when none does.
C13_FirstNonEmptySignal ==
    ret.op = "BestVersionForDir" =>
        LET k == First({ i \in 1..Len(Signals) : Signals[i].yields # <<>> }) IN
        /\ ~ret.panic
        /\ ret.out = IF k = 0 THEN fallbackVersion(versions, pathVersion, NoWarning)
                     ELSE bestVersion(versions, pathVersion,
                                      Signals[k].yields, Signals[k].label)

-----------------------------------------------------------------------------
(* Properties of discoverPHPViaPHPConfig *)

\* C14, as stated: for a five-digit vernum XYYZZ the version string of the
\* record is X.YY.ZZ, the zero-padding of minor and patch preserved; a vernum
\* of any other length yields no record.
C14_PaddedVersion ==
    ret.op = "discoverPHPViaPHPConfig" =>
        LET v == environ.vernum IN
        IF Len(v) = 5
        THEN /\ ret.out # <<>>
             /\ ret.out[1].Version = <<v[1], ".", v[2], v[3], ".", v[4], v[5]>>
        ELSE ret.out = <<>>

\* C14, as amended: for a five-digit vernum XYYZZ the version string of the
\* record has the three components X, YY and ZZ written as numbers, without
\* leading zeros (80102 gives 8.1.2); a vernum of any other length yields no
\* record.
C14_NumericVersion ==
    ret.op = "discoverPHPViaPHPConfig" =>
        LET v == environ.vernum IN
        IF Len(v) = 5
        THEN /\ ret.out # <<>>
             /\ LET parts == Split(ret.out[1].Version)
                    given == << <<v[1]>>, <<v[2], v[3]>>, <<v[4], v[5]>> >>
                IN /\ Len(parts) = 3
                   /\ \A i \in 1..3 :
                         /\ parts[i] # <<>>
                         /\ Len(parts[i]) > 1 => parts[i][1] # "0"
                         /\ Atoi(parts[i]) = Atoi(given[i])
        ELSE ret.out = <<>>

\* the vernum 80108 has given a record of version 8.1.8
C14_Witness ==
    /\ ret.op = "discoverPHPViaPHPConfig"
    /\ environ.vernum = <<"8", "0", "1", "0", "8">>
    /\ ret.out # <<>>
    /\ ret.out[1].Version = <<"8", ".", "1", ".", "8">>

-----------------------------------------------------------------------------
(* Properties of the cache *)

\* what the claim compares: the version and the capability paths of a record
\* and of a cache entry
Capabilities(v) ==
    [version |-> v.Version, php |-> v.PHPPath, fpm |-> v.FPMPath, cgi |-> v.CGIPath]

EntryCapabilities(e) ==
    [version |-> e.version, php |-> e.php_path, fpm |-> e.fpm_path, cgi |-> e.cgi_path]

\* the entries of the cache whose version parses, in the order of the file
GoodEntries == SelectSeq(cache[1], LAMBDA e : NewVersion(e.version) # <<>>)

\* the cache written after a discovery lists the records of the store in
\* their order
SavedAsStored(vs, file) ==
    /\ Len(file) = Len(vs)
    /\ \A i \in 1..Len(vs) : EntryCapabilities(file[i]) = Capabilities(vs[i])

\* C15, as stated: the store loaded from the cache has the versions of the
\* saved list in the same order with the same capability paths, an entry
\* whose version does not parse being dropped and every other entry loaded.
C15_SameOrder ==
    [][ /\ pc = "path" /\ pc' = "ready" => SavedAsStored(versions', cache'[1])
        /\ pc = "new" /\ pc' = "loaded" =>
              /\ Len(versions') = Len(GoodEntries)
              /\ \A i \in 1..Len(versions') :
                    Capabilities(versions'[i]) = EntryCapabilities(GoodEntries[i])
      ]_vars

\* C15, as amended: the store loaded from the cache is sorted and holds, with
\* the same versions and capability paths, exactly the entries of the saved
\* list whose version parses; entries with equal parsed versions may have
\* changed places.
C15_SameRecords ==
    [][ /\ pc = "path" /\ pc' = "ready" => SavedAsStored(versions', cache'[1])
        /\ pc = "new" /\ pc' = "loaded" =>
              /\ Len(versions') = Len(GoodEntries)
              /\ { Capabilities(v) : v \in Range(versions') }
                    = { EntryCapabilities(e) : e \in Range(GoodEntries) }
              /\ IsSorted(versions')
              /\ \A v \in Range(versions') : v.FullVersion = NewVersion(v.Version)
      ]_vars

\* a cache of two entries was loaded after the version of its second entry
\* had been blanked: the store holds the first entry only
C15_Witness ==
    /\ pc = "loaded"
    /\ cache # <<>>
    /\ Len(cache[1]) = 2
    /\ cache[1][2].version = <<>>
    /\ Len(versions) = 1
    /\ Capabilities(versions[1]) = EntryCapabilities(cache[1][1])

-----------------------------------------------------------------------------
(* Properties of the order of the probes *)

\* while discover runs, the store changes only by addVersion, applied to the
\* record a probe has yielded
OnlyThroughAddVersion ==
    ( /\ pc \in {"defaults", "strategies", "path"}
      /\ pc' = pc
      /\ <<versions, seen>>' # <<versions, seen>> )
    => /\ adds' = adds + 1
       /\ last'[1].arg \in Found
       /\ LET a == addVersion(versions, seen, last'[1].arg) IN
             /\ seen' = a.seen
             /\ last'[1].idx = a.idx
             /\ Len(versions') = Len(a.versions)
             /\ \A i \in 1..Len(versions') :
                   Unmarked(versions'[i]) = Unmarked(a.versions[i])

\* C16, as stated: discover runs the probes of the default prefixes, then
\* the probe of $PATH, then the set of platform-specific strategies; every
\* record a probe yields goes through addVersion.
C16_PathBeforeStrategies ==
    [][ /\ pc = "defaults" => pc' \in {"defaults", "path"}
        /\ pc = "path" => pc' \in {"path", "strategies"}
        /\ pc = "strategies" => pc' \in {"strategies", "ready"}
        /\ OnlyThroughAddVersion
      ]_vars

\* C16, as amended: discover runs the set of platform-specific strategies
\* first, the probes of the default prefixes at its head, and the probe of
\* $PATH last; every record a probe yields goes through addVersion.
C16_PathLast ==
    [][ /\ pc = "defaults" => pc' \in {"defaults", "strategies"}
        /\ pc = "strategies" => pc' \in {"strategies", "path"}
        /\ pc = "path" => pc' \in {"path", "ready"}
        /\ OnlyThroughAddVersion
      ]_vars

\* the scan of $PATH has a directory left and has found nothing yet, and the
\* store already holds an installation that no default prefix has: a
\* strategy has run
C16_Witness ==
    /\ pc = "path"
    /\ paths # <<>>
    /\ pathVersion = <<>>
    /\ Len(versions) = 1
    /\ versions[1].PHPPath = "/opt/php/bin/php"

-----------------------------------------------------------------------------
(* Properties of bestVersion on requests without a usable prefix *)

\* C17: called with the empty string, bestVersion takes the fallback path:
\* it returns the system version, labelled "default version in $PATH", if
\* one is recorded, else the record of greatest parsed version, labelled
\* "most recent PHP version"; it does not return a record of the prefix scan
\* under the caller's label.
C17_EmptyRequestFallsBack ==
    ( /\ ret.op = "bestVersion"
      /\ pc = "ready"
      /\ ret.requested = <<>>
      /\ Len(versions) > 0 )
    => IF pathVersion # <<>>
       THEN /\ ret.out.version = pathVersion
            /\ ret.out.source = "default version in $PATH"
       ELSE /\ Len(ret.out.version) = 1
            /\ ret.out.version[1] \in Range(versions)
            /\ IsHighestOf(ret.out.version[1], Range(versions))
            /\ ret.out.source = "most recent PHP version"

\* C18: for a request X.Y.Z that no record matches exactly, when no record
\* of minor version X.Y is installed, bestVersion selects no record for
\* sharing the major version X: the result is the fallback record (the
\* system version, else the most recent one), with a non-empty warning.
C18_NoMajorFallback ==
    ( /\ ret.op = "bestVersion"
      /\ pc = "ready"
      /\ IsNumeric(ret.requested, 3)
      /\ Len(versions) > 0
      /\ \A v \in Range(versions) :
            v.Version # ret.requested /\ ~OfMinor(v, ret.requested) )
    => /\ ret.out.err = ""
       /\ ret.out.warning.format # ""
       /\ IF pathVersion # <<>>
          THEN /\ ret.out.version = pathVersion
               /\ ret.out.source = "default version in $PATH"
          ELSE /\ Len(ret.out.version) = 1
               /\ ret.out.version[1] \in Range(versions)
               /\ IsHighestOf(ret.out.version[1], Range(versions))
               /\ ret.out.source = "most recent PHP version"

-----------------------------------------------------------------------------
(* Properties of discoverFromDir *)

\* the "/" of the pattern, none for the nil pattern
Seps == IF walk.pathRegexp = <<>> THEN 0 ELSE Len(walk.pathRegexp[1]) - 1

\* the pattern is nil or matches the path
Matches(path) ==
    \/ walk.pathRegexp = <<>>
    \/ /\ Len(path) = Len(walk.pathRegexp[1])
       /\ \A i \in 1..Len(path) : path[i] \in walk.pathRegexp[1][i]

\* path is strictly below dir
Below(path, dir) == Len(path) > Len(dir) /\ SubSeq(path, 1, Len(dir)) = dir

-----------------------------------------------------------------------------
(* Properties of the system version after discovery *)

\* C20: once discover has returned, a recorded system version is one of the
\* records of the store and that record is flagged, also when a later
\* directory of $PATH has yielded a higher-ranked duplicate that replaced the
\* stored record; so fallbackVersion returns a record of the store and a store
\* loaded from the saved cache has the same system version.
C20_SystemVersionIsStored ==
    /\ pc = "ready" /\ pathVersion # <<>> =>
          /\ pathVersion[1] \in Range(versions)
          /\ \E i \in 1..Len(versions) :
                versions[i].PHPPath = pathVersion[1].PHPPath /\ versions[i].IsSystem
          /\ \E i \in 1..Len(cache[1]) :
                cache[1][i].php_path = pathVersion[1].PHPPath /\ cache[1][i].is_system
    /\ ret.op = "fallbackVersion" /\ ret.out.version # <<>> =>
          ret.out.version[1] \in Range(versions)

-----------------------------------------------------------------------------
(* Properties of prefix matching *)

\* the record has the major version, and for X.Y the minor version too, that
\* the numeric string s (X or X.Y) names
OfPrefix(v, s) ==
    \A i \in 1..Len(Split(s)) : v.FullVersion[i] = Atoi(Split(s)[i])

\* C21: prefix matching respects the boundaries of the version components: a
\* record that the prefix scan of bestVersion returns for a request X.Y has
\* major X and minor Y, and for a request X major X ("8.1" never selects
\* 8.10.z); IsVersionAvailable("X.Y") is true only if a stored record has
\* major X and minor Y.
C21_ComponentBoundaries ==
    /\ ( /\ ret.op = "bestVersion"
         /\ IsNumeric(ret.requested, 1) \/ IsNumeric(ret.requested, 2)
         /\ ret.out.version # <<>>
         /\ ret.out.source = ret.source )
       => OfPrefix(ret.out.version[1], ret.requested)
    /\ ( /\ ret.op = "IsVersionAvailable"
         /\ IsNumeric(ret.version, 2)
         /\ ret.out )
       => \E v \in Range(versions) : OfPrefix(v, ret.version)

-----------------------------------------------------------------------------
(* Properties of the forced version *)

\* C22: for every non-empty value of FORCED_PHP_VERSION, a value of one
\* component such as "8" included, BestVersionForDir returns normally, with a
\* record or an error; a value of at least two numeric components is resolved
\* as bestVersion of its major.minor prefix under the label "internal forced
\* version".
C22_ForcedVersionReturns ==
    ( ret.op = "BestVersionForDir" /\ environ.forced # <<>> ) =>
        /\ ~ret.panic
        /\ ret.out.version # <<>> \/ ret.out.err # ""
        /\ IsNumeric(MajorMinor(environ.forced), 2) =>
              ret.out = bestVersion(versions, pathVersion,
                                    MajorMinor(environ.forced),
                                    "internal forced version")

====
